---- MODULE Spec2Model ----
(***************************************************************************)
(* FSMTransitionMixin (fsm_admin/mixins.py): the admin mixin that turns a  *)
(* submitted `_fsmtransition-<name>` button into a django-fsm transition   *)
(* on the edited object, saves it, logs the change and redirects.          *)
(*                                                                         *)
(* Strings the code takes apart (POST field names, transition names, URLs) *)
(* are sequences of tokens: "_fsmtransition" and "-" are tokens, and so is *)
(* every other chunk of text, so that startswith and split('-') are        *)
(* computed on them as Python computes them on the characters.             *)
(***************************************************************************)
EXTENDS Integers, Sequences, FiniteSets, TLC

VARIABLES fsm_field, attr_kind, db, log_entries, saves, served,
          pc, request, arg_obj, obj, local, trace, msgs, written, resp

vars == <<fsm_field, attr_kind, db, log_entries, saves, served,
          pc, request, arg_obj, obj, local, trace, msgs, written, resp>>

\* ------------------------------------------------------------ bounds
\* keys in one request.POST
MaxKeys == 2
\* requests served in one behaviour
MaxRequests == 2
\* requests in flight at once in SpecConc
Workers == 2

\* ------------------------------------------------------------ strings
PREFIX == "_fsmtransition"
SEP == "-"

StartsWith(s, p) ==
    /\ Len(p) <= Len(s)
    /\ SubSeq(s, 1, Len(p)) = p

\* str.split(sep): the pieces between the separators, all of them
RECURSIVE split(_, _)
split(s, sep) ==
    IF \A i \in 1..Len(s) : s[i] # sep
    THEN <<s>>
    ELSE LET i == CHOOSE i \in 1..Len(s) :
                    /\ s[i] = sep
                    /\ \A j \in 1..(i - 1) : s[j] # sep
         IN <<SubSeq(s, 1, i - 1)>> \o split(SubSeq(s, i + 1, Len(s)), sep)

\* '...{0}...{1}'.format / '%(obj)s ...' % msg_dict
format_change(original_state, new_state) ==
    <<"Changed state from ", original_state, " to ", new_state>>

format_success(obj_text, new_state) ==
    <<obj_text, " successfully set to ", new_state>>

format_error(obj_text, transition) ==
    <<"Error! ", obj_text, " failed to ">> \o transition

\* ------------------------------------------------------------ the model class
States == {"draft", "published", "archived"}
Absent == "<no attribute>"
Unrelated == "CA"
FsmFields == {"state", "status"}

\* the @transition-decorated methods of the model: func_name, source, target
Transitions ==
    << [func_name |-> <<"publish">>, source |-> {"draft"}, target |-> "published"],
       [func_name |-> <<"archive">>, source |-> {"draft", "published"},
        target |-> "archived"] >>

TransitionNames == { Transitions[i].func_name : i \in 1..Len(Transitions) }

\* what an attribute name of the object resolves to
AttrKinds == {"method", "data", "none"}

\* force_text(obj) / force_unicode(obj)
force_text(o) == "Article object"

\* getattr(obj, self.fsm_field) and obj.state
getattr_field(o, name) == o[name]

\* getattr(obj, transition, None): transition methods as the class declares
\* them, the other model methods, the data fields, None for the rest
getattr_name(o, name) ==
    IF name \in TransitionNames THEN attr_kind[name]
    ELSE IF name \in {<<"save">>, <<"delete">>} THEN "method"
    ELSE IF Len(name) = 1 /\ name[1] \in DOMAIN o /\ o[name[1]] # Absent THEN "data"
    ELSE "none"

\* Python truth value of what getattr returned
truthy(kind) == kind # "none"

\* get_available_FIELD_transitions of django-fsm: (target, func) of every
\* transition whose source holds the object's current state
get_available_transitions(o, field) ==
    SelectSeq(Transitions, LAMBDA t : o[field] \in t.source)

\* Python's None where an object is expected
None == [state |-> Absent, status |-> Absent]

_fsm_get_transitions(o) ==
    IF o # None THEN get_available_transitions(o, fsm_field) ELSE <<>>

\* the transition the decorated method of that name performs
TransitionOf(name) ==
    Transitions[CHOOSE i \in 1..Len(Transitions) : Transitions[i].func_name = name]

\* trans_func(): django-fsm runs the method and sets the field to the target
trans_func(o, name) ==
    [o EXCEPT ![fsm_field] = TransitionOf(name).target]

\* ------------------------------------------------------------ the request
FieldNames ==
    { <<"_save">>,
      <<PREFIX, SEP, "publish">>,
      <<PREFIX, SEP, "archive">>,
      <<PREFIX, SEP, "delete">>,
      <<PREFIX>>,
      <<PREFIX, "x", SEP, "publish">>,
      <<PREFIX, SEP, "publish", SEP, "archive">> }

\* request.POST.keys(): distinct field names, in the order the dict yields them
RECURSIVE KeyLists(_)
KeyLists(n) ==
    IF n = 0 THEN { <<>> }
    ELSE LET shorter == KeyLists(n - 1)
         IN shorter \cup { Append(ks, k) : ks \in shorter, k \in FieldNames }

Posts ==
    { ks \in KeyLists(MaxKeys) :
        \A i, j \in 1..Len(ks) : i # j => ks[i] # ks[j] }

Paths == {"/admin/app/article/1/"}
PreservedFilters == {"", "_changelist_filters=q%3D1"}
UserIds == {7}

Requests ==
    [POST : Posts, path : Paths, preserved_filters : PreservedFilters,
     user_id : UserIds]

NoRequest ==
    [POST |-> <<>>, path |-> "", preserved_filters |-> "", user_id |-> 0]

\* ------------------------------------------------------------ response_change
\* line 58: the submitted keys that name a transition button
transition_key(POST) ==
    SelectSeq(POST, LAMBDA k : StartsWith(k, <<PREFIX>>))

\* the last matching key dispatched instead of the first
selected_key_last(keys) == keys[Len(keys)]

\* line 63: transition_key[0]
selected_key(keys) == keys[1]

\* line 63: .split('-')
key_parts(keys) == split(selected_key(keys), SEP)

\* line 63: [1] of the split, an IndexError when there is none
parsed_transition(keys) == key_parts(keys)[2]

\* line 72
available(transitions, transition) ==
    \E i \in 1..Len(transitions) : transitions[i].func_name = transition

\* line 75
may_run(o, transition) ==
    /\ available(_fsm_get_transitions(o), transition)
    /\ truthy(getattr_name(o, transition))

\* line 44-48
get_redirect_url(req, o) == <<req.path>>

\* the redirect loses the list filters
add_preserved_filters_dropped(preserved_filters, url) == url

\* add_preserved_filters: the filters become the URL's query string
add_preserved_filters(preserved_filters, url) ==
    IF preserved_filters = "" THEN url ELSE url \o <<"?", preserved_filters>>

\* lines 93-98
redirect(req, o) ==
    [type |-> "redirect",
     url |-> add_preserved_filters(req.preserved_filters, get_redirect_url(req, o))]

NoResponse == [type |-> "none", url |-> <<>>]
DefaultResponse == [type |-> "default", url |-> <<>>]
Raised(exc) == [type |-> exc, url |-> <<>>]

\* line 100-111
log_entry(o, user_id, original_state, new_state) ==
    [user_id |-> user_id, object_id |-> 1, object_repr |-> force_text(o),
     action_flag |-> "CHANGE",
     change_message |-> format_change(original_state, new_state)]

\* a save that keeps a row another request already moved on
save_row_first_wins(row, o) == IF row[fsm_field] # "draft" THEN row ELSE o

\* obj.save(): the row is overwritten with the in-memory object
save_row(row, o) == o

\* the exception of trans_func() or of obj.save() is swallowed
after_trans_func_swallowed(outcome) == "invoked"
after_save_swallowed(outcome) == "saved"

\* what follows trans_func() and obj.save(): the next statement, or the
\* exception leaves response_change
after_trans_func(outcome) == IF outcome = "ok" THEN "invoked" ELSE "done"
after_save(outcome) == IF outcome = "ok" THEN "saved" ELSE "done"

NoLocal == [transition |-> <<>>, original_state |-> Absent]

Slots == DOMAIN pc

InitModel(n) ==
    /\ fsm_field \in FsmFields
    /\ attr_kind \in [TransitionNames -> AttrKinds]
    /\ \E other \in {Absent, Unrelated} :
         db = IF fsm_field = "state"
              THEN [state |-> "draft", status |-> Absent]
              ELSE [state |-> other, status |-> "draft"]
    /\ log_entries = <<>>
    /\ saves = <<>>
    /\ served = 0
    /\ pc = [r \in 1..n |-> "idle"]
    /\ request = [r \in 1..n |-> NoRequest]
    /\ arg_obj = [r \in 1..n |-> None]
    /\ obj = [r \in 1..n |-> None]
    /\ local = [r \in 1..n |-> NoLocal]
    /\ trace = [r \in 1..n |-> <<>>]
    /\ msgs = [r \in 1..n |-> <<>>]
    /\ written = [r \in 1..n |-> <<>>]
    /\ resp = [r \in 1..n |-> NoResponse]

Init == InitModel(1)
InitConc == InitModel(Workers)

\* ModelAdmin.change_view: the object is loaded and handed to response_change
Receive(r, reqs) ==
    /\ pc[r] \in {"idle", "done"}
    /\ served < MaxRequests
    /\ \E req \in reqs : request' = [request EXCEPT ![r] = req]
    /\ served' = served + 1
    /\ pc' = [pc EXCEPT ![r] = "loaded"]
    /\ arg_obj' = [arg_obj EXCEPT ![r] = db]
    /\ obj' = [obj EXCEPT ![r] = db]
    /\ local' = [local EXCEPT ![r] = NoLocal]
    /\ trace' = [trace EXCEPT ![r] = <<>>]
    /\ msgs' = [msgs EXCEPT ![r] = <<>>]
    /\ written' = [written EXCEPT ![r] = <<>>]
    /\ resp' = [resp EXCEPT ![r] = NoResponse]
    /\ UNCHANGED <<fsm_field, attr_kind, db, log_entries, saves>>

\* lines 58-60: no transition button, the default response_change answers
Default(r) ==
    /\ pc[r] = "loaded"
    /\ transition_key(request[r].POST) = <<>>
    /\ pc' = [pc EXCEPT ![r] = "done"]
    /\ trace' = [trace EXCEPT ![r] = <<"default">>]
    /\ resp' = [resp EXCEPT ![r] = DefaultResponse]
    /\ UNCHANGED <<fsm_field, attr_kind, db, log_entries, saves, served,
                   request, arg_obj, obj, local, msgs, written>>

\* line 63: the selected key has no second piece
ParseError(r) ==
    /\ pc[r] = "loaded"
    /\ transition_key(request[r].POST) # <<>>
    /\ Len(key_parts(transition_key(request[r].POST))) < 2
    /\ pc' = [pc EXCEPT ![r] = "done"]
    /\ resp' = [resp EXCEPT ![r] = Raised("IndexError")]
    /\ UNCHANGED <<fsm_field, attr_kind, db, log_entries, saves, served,
                   request, arg_obj, obj, local, trace, msgs, written>>

\* lines 63-77: the transition is available and resolves, and is called
Invoke(r) ==
    LET keys == transition_key(request[r].POST)
        transition == parsed_transition(keys)
        kind == getattr_name(obj[r], transition)
    IN /\ pc[r] = "loaded"
       /\ keys # <<>>
       /\ Len(key_parts(keys)) >= 2
       /\ may_run(obj[r], transition)
       /\ local' = [local EXCEPT ![r] =
                      [transition |-> transition,
                       original_state |-> getattr_field(obj[r], fsm_field)]]
       /\ trace' = [trace EXCEPT ![r] = <<"snapshot", "query", "resolve", "invoke">>]
       /\ \E outcome \in (IF kind = "method" THEN {"ok", "raise"} ELSE {"raise"}) :
            /\ pc' = [pc EXCEPT ![r] = after_trans_func(outcome)]
            /\ obj' = [obj EXCEPT ![r] =
                         IF outcome = "ok" THEN trans_func(@, transition) ELSE @]
            /\ resp' = [resp EXCEPT ![r] =
                          IF outcome = "ok" THEN NoResponse
                          ELSE IF kind = "method" THEN Raised("TransitionError")
                          ELSE Raised("TypeError")]
       /\ UNCHANGED <<fsm_field, attr_kind, db, log_entries, saves, served,
                      request, arg_obj, msgs, written>>

\* lines 63-75, 89-98: not available or not resolved, the error message
Reject(r) ==
    LET keys == transition_key(request[r].POST)
        transition == parsed_transition(keys)
    IN /\ pc[r] = "loaded"
       /\ keys # <<>>
       /\ Len(key_parts(keys)) >= 2
       /\ ~may_run(obj[r], transition)
       /\ local' = [local EXCEPT ![r] =
                      [transition |-> transition,
                       original_state |-> getattr_field(obj[r], fsm_field)]]
       /\ trace' = [trace EXCEPT ![r] =
                      <<"snapshot", "query", "resolve", "error", "redirect">>]
       /\ msgs' = [msgs EXCEPT ![r] =
                     <<[level |-> "ERROR",
                        text |-> format_error(force_text(obj[r]), transition)]>>]
       /\ resp' = [resp EXCEPT ![r] = redirect(request[r], obj[r])]
       /\ pc' = [pc EXCEPT ![r] = "done"]
       /\ UNCHANGED <<fsm_field, attr_kind, db, log_entries, saves, served,
                      request, arg_obj, obj, written>>

\* line 81: obj.save()
Save(r) ==
    /\ pc[r] = "invoked"
    /\ trace' = [trace EXCEPT ![r] = Append(@, "save")]
    /\ \E outcome \in {"ok", "raise"} :
         /\ pc' = [pc EXCEPT ![r] = after_save(outcome)]
         /\ db' = IF outcome = "ok" THEN save_row(db, obj[r]) ELSE db
         /\ saves' = IF outcome = "ok"
                     THEN Append(saves, [slot |-> r, row |-> obj[r]])
                     ELSE saves
         /\ resp' = [resp EXCEPT ![r] =
                       IF outcome = "ok" THEN NoResponse ELSE Raised("DatabaseError")]
    /\ UNCHANGED <<fsm_field, attr_kind, log_entries, served,
                   request, arg_obj, obj, local, msgs, written>>

\* line 82: obj.state on a model that has no attribute of that name
ReadStateError(r) ==
    /\ pc[r] = "saved"
    /\ getattr_field(obj[r], "state") = Absent
    /\ trace' = [trace EXCEPT ![r] = Append(@, "read_new")]
    /\ resp' = [resp EXCEPT ![r] = Raised("AttributeError")]
    /\ pc' = [pc EXCEPT ![r] = "done"]
    /\ UNCHANGED <<fsm_field, attr_kind, db, log_entries, saves, served,
                   request, arg_obj, obj, local, msgs, written>>

\* lines 82-98: the change is logged, the user is told, the redirect returned
LogAndRespond(r) ==
    LET new_state == getattr_field(obj[r], "state")
        entry == log_entry(obj[r], request[r].user_id,
                           local[r].original_state, new_state)
    IN /\ pc[r] = "saved"
       /\ new_state # Absent
       /\ log_entries' = Append(log_entries, entry)
       /\ written' = [written EXCEPT ![r] = Append(@, entry)]
       /\ msgs' = [msgs EXCEPT ![r] =
                     Append(@, [level |-> "SUCCESS",
                                text |-> format_success(force_text(obj[r]), new_state)])]
       /\ trace' = [trace EXCEPT ![r] =
                      @ \o <<"read_new", "log", "success", "redirect">>]
       /\ resp' = [resp EXCEPT ![r] = redirect(request[r], obj[r])]
       /\ pc' = [pc EXCEPT ![r] = "done"]
       /\ UNCHANGED <<fsm_field, attr_kind, db, saves, served,
                      request, arg_obj, obj, local>>

\* the requests of SpecConc: one transition button each
ButtonRequests ==
    { req \in Requests :
        /\ Len(req.POST) = 1
        /\ Len(req.POST[1]) = 3
        /\ StartsWith(req.POST[1], <<PREFIX, SEP>>)
        /\ req.preserved_filters = "" }

Arrive == \E r \in Slots : Receive(r, Requests)
ArriveButton == \E r \in Slots : Receive(r, ButtonRequests)
DoDefault == \E r \in Slots : Default(r)
DoParseError == \E r \in Slots : ParseError(r)
DoInvoke == \E r \in Slots : Invoke(r)
DoReject == \E r \in Slots : Reject(r)
DoSave == \E r \in Slots : Save(r)
DoReadStateError == \E r \in Slots : ReadStateError(r)
DoLogAndRespond == \E r \in Slots : LogAndRespond(r)

Next ==
    \/ Arrive
    \/ DoDefault
    \/ DoParseError
    \/ DoInvoke
    \/ DoReject
    \/ DoSave
    \/ DoReadStateError
    \/ DoLogAndRespond

NextConc ==
    \/ ArriveButton
    \/ DoInvoke
    \/ DoReject
    \/ DoSave
    \/ DoReadStateError
    \/ DoLogAndRespond

Spec == Init /\ [][Next]_vars
SpecConc == InitConc /\ [][NextConc]_vars

\* ------------------------------------------------------------ properties
Count(seq, e) == Cardinality({ i \in 1..Len(seq) : seq[i] = e })

IsPrefix(p, q) == Len(p) <= Len(q) /\ SubSeq(q, 1, Len(p)) = p

\* the field name `_fsmtransition-<name>`
Button(name) == <<PREFIX, SEP>> \o name

\* everything after the first separator of a field name
Remainder(k) ==
    LET i == CHOOSE i \in 1..Len(k) :
                /\ k[i] = SEP
                /\ \A j \in 1..(i - 1) : k[j] # SEP
    IN SubSeq(k, i + 1, Len(k))

Levels(r) == [i \in 1..Len(msgs[r]) |-> msgs[r][i].level]

SuccessOrder ==
    <<"snapshot", "query", "resolve", "invoke", "save", "read_new", "log",
      "success", "redirect">>

\* the request in slot r submitted the one button `_fsmtransition-<name>`
Submitted(r, name) == transition_key(request[r].POST) = <<Button(name)>>

AvailableAtEntry(r, name) ==
    available(get_available_transitions(arg_obj[r], fsm_field), name)

\* C1: a finished request that submitted the button of an available, callable
\* transition T whose call and save did not raise has called T once, saved
\* once, left the workflow field at T's target, written one audit entry with
\* the old and the new state, and emitted one success message and no error.
C1_AvailableTransitionRuns ==
    \A r \in Slots : \A T \in TransitionNames :
        ( /\ pc[r] = "done"
          /\ Submitted(r, T)
          /\ AvailableAtEntry(r, T)
          /\ getattr_name(arg_obj[r], T) = "method"
          /\ resp[r].type \notin {"TransitionError", "DatabaseError"} )
        => /\ Count(trace[r], "invoke") = 1
           /\ Count(trace[r], "save") = 1
           /\ obj[r][fsm_field] = TransitionOf(T).target
           /\ db = obj[r]
           /\ Len(written[r]) = 1
           /\ written[r][1].change_message =
                  format_change(arg_obj[r][fsm_field], TransitionOf(T).target)
           /\ Levels(r) = <<"SUCCESS">>

\* C2: a finished request that submitted the one button `_fsmtransition-N`,
\* N not the name of an available transition or not resolving to a callable,
\* called nothing, left the object as it was, saved nothing, wrote no audit
\* entry and emitted exactly one error message.
C2_UnavailableNameRejected ==
    \A r \in Slots :
        ( /\ pc[r] = "done"
          /\ Len(transition_key(request[r].POST)) = 1
          /\ StartsWith(transition_key(request[r].POST)[1], <<PREFIX, SEP>>)
          /\ LET N == Remainder(transition_key(request[r].POST)[1])
             IN \/ ~AvailableAtEntry(r, N)
                \/ getattr_name(arg_obj[r], N) # "method" )
        => /\ Count(trace[r], "invoke") = 0
           /\ Count(trace[r], "save") = 0
           /\ obj[r] = arg_obj[r]
           /\ written[r] = <<>>
           /\ Levels(r) = <<"ERROR">>

\* C3: a finished request none of whose field names starts with
\* `_fsmtransition-` did nothing of the transition logic and returned the
\* default response_change's answer.
C3_NoButtonDefers ==
    \A r \in Slots :
        ( /\ pc[r] = "done"
          /\ \A i \in 1..Len(request[r].POST) :
                ~StartsWith(request[r].POST[i], <<PREFIX, SEP>>) )
        => /\ trace[r] = <<"default">>
           /\ resp[r] = DefaultResponse
           /\ msgs[r] = <<>>
           /\ written[r] = <<>>

\* the first submitted key that matches the button prefix
FirstMatch(POST) ==
    POST[CHOOSE i \in 1..Len(POST) :
            /\ StartsWith(POST[i], <<PREFIX>>)
            /\ \A j \in 1..(i - 1) : ~StartsWith(POST[j], <<PREFIX>>)]

\* C4: one request calls a transition at most once, saves at most once and
\* writes at most one audit entry, and the transition it dispatches is the one
\* parsed from the first matching key, whatever the other keys name.
C4_AtMostOneTransition ==
    \A r \in Slots :
        /\ Count(trace[r], "invoke") <= 1
        /\ Count(trace[r], "save") <= 1
        /\ Count(trace[r], "log") <= 1
        /\ Len(written[r]) <= 1
        /\ Count(trace[r], "resolve") = 1
             => /\ Len(split(FirstMatch(request[r].POST), SEP)) >= 2
                /\ local[r].transition = split(FirstMatch(request[r].POST), SEP)[2]
        /\ obj[r] # arg_obj[r]
             => /\ Len(split(FirstMatch(request[r].POST), SEP)) >= 2
                /\ obj[r] = trans_func(arg_obj[r],
                                       split(FirstMatch(request[r].POST), SEP)[2])

\* two buttons of two available transitions in one submission, one dispatched
C4_Witness ==
    \E r \in Slots :
        /\ pc[r] = "done"
        /\ request[r].POST = <<Button(<<"archive">>), Button(<<"publish">>)>>
        /\ Count(trace[r], "invoke") = 1
        /\ Count(trace[r], "save") = 1
        /\ Len(written[r]) = 1
        /\ db[fsm_field] = "archived"

\* C5: whatever fsm_field is configured, the audit entry and the success
\* message report the configured field as read before the call (old) and as
\* read after the call and the save (new).
C5_ConfiguredFieldReported ==
    \A r \in Slots :
        /\ \A i \in 1..Len(written[r]) :
              written[r][i].change_message =
                  format_change(arg_obj[r][fsm_field], obj[r][fsm_field])
        /\ \A i \in 1..Len(msgs[r]) :
              msgs[r][i].level = "SUCCESS"
                  => msgs[r][i].text =
                         format_success(force_text(obj[r]), obj[r][fsm_field])

\* C6: a finished request that carried a transition field and raised nothing
\* returned one redirect to the request path with the preserved filters in
\* it, as its last step, after exactly one flash message.
C6_RedirectOnBothPaths ==
    \A r \in Slots :
        ( /\ pc[r] = "done"
          /\ transition_key(request[r].POST) # <<>>
          /\ resp[r].type \notin {"IndexError", "TransitionError", "TypeError",
                                  "DatabaseError", "AttributeError"} )
        => /\ resp[r].type = "redirect"
           /\ resp[r].url[1] = request[r].path
           /\ request[r].preserved_filters # ""
                => resp[r].url[Len(resp[r].url)] = request[r].preserved_filters
           /\ request[r].preserved_filters = "" => Len(resp[r].url) = 1
           /\ Len(msgs[r]) = 1
           /\ Count(trace[r], "redirect") = 1
           /\ trace[r][Len(trace[r])] = "redirect"
           /\ trace[r][Len(trace[r]) - 1] \in {"success", "error"}

\* a success redirect that carries list filters
C6_Witness ==
    \E r \in Slots :
        /\ pc[r] = "done"
        /\ resp[r].type = "redirect"
        /\ request[r].preserved_filters # ""
        /\ Levels(r) = <<"SUCCESS">>

\* a reject redirect that carries list filters
C6_WitnessReject ==
    \E r \in Slots :
        /\ pc[r] = "done"
        /\ resp[r].type = "redirect"
        /\ request[r].preserved_filters # ""
        /\ Levels(r) = <<"ERROR">>

\* C7: when the transition call raises, the request ends there: one call, no
\* save, no audit entry, no message, no redirect.
C7_CallableErrorPropagates ==
    \A r \in Slots :
        resp[r].type \in {"TransitionError", "TypeError"}
        => /\ pc[r] = "done"
           /\ trace[r] = <<"snapshot", "query", "resolve", "invoke">>
           /\ msgs[r] = <<>>
           /\ written[r] = <<>>
           /\ db = arg_obj[r]

\* a transition method that raised
C7_Witness ==
    \E r \in Slots :
        /\ resp[r].type = "TransitionError"
        /\ pc[r] = "done"
        /\ Submitted(r, <<"publish">>)

\* C8: the steps of the success path come in the order snapshot, call, save,
\* read of the new state, audit entry, success message; an audit entry is
\* written only for an object whose save completed, and a failed save ends
\* the request with no audit entry and no message.
C8_SuccessPathOrder ==
    \A r \in Slots :
        /\ Count(trace[r], "invoke") = 1 => IsPrefix(trace[r], SuccessOrder)
        /\ written[r] # <<>> => db = obj[r]
        /\ Count(trace[r], "success") = 1 => written[r] # <<>>
        /\ resp[r].type = "DatabaseError"
             => /\ pc[r] = "done"
                /\ written[r] = <<>>
                /\ msgs[r] = <<>>
                /\ trace[r] = SubSeq(SuccessOrder, 1, 5)

\* a save that failed after the transition ran
C8_Witness ==
    \E r \in Slots :
        /\ resp[r].type = "DatabaseError"
        /\ obj[r] # arg_obj[r]
        /\ db = arg_obj[r]

\* C9: the transition name a request works with is the whole remainder of
\* the selected field name after its first separator, and no accepted field
\* name fails to parse.
C9_WholeRemainderParsed ==
    \A r \in Slots :
        ( /\ pc[r] = "done"
          /\ transition_key(request[r].POST) # <<>> )
        => /\ resp[r].type # "IndexError"
           /\ local[r].transition =
                  Remainder(selected_key(transition_key(request[r].POST)))

\* C10: the persisted row is the one the last completed save wrote, and each
\* request checks, runs and logs against the copy it loaded, whatever other
\* requests saved in between.
C10_LastWriteWins ==
    /\ saves # <<>> => db = saves[Len(saves)].row
    /\ \A r \in Slots :
          /\ \A i \in 1..Len(written[r]) :
                written[r][i].change_message[2] = arg_obj[r][fsm_field]
          /\ Count(trace[r], "invoke") = 1
                => AvailableAtEntry(r, local[r].transition)

\* two requests raced from the same state: two audit entries with the same
\* old state whose new states differ and do not chain, the row holding the
\* state of the later save
C10_Witness ==
    /\ fsm_field = "state"
    /\ \A r \in Slots : pc[r] = "done"
    /\ Len(log_entries) = 2
    /\ Len(saves) = 2
    /\ saves[1].slot # saves[2].slot
    /\ log_entries[1].change_message[2] = log_entries[2].change_message[2]
    /\ log_entries[1].change_message[4] # log_entries[2].change_message[4]
    /\ log_entries[2].change_message[2] # log_entries[1].change_message[4]
    /\ db = saves[2].row
    /\ db # saves[1].row

====
